---------------------------- MODULE Spec2Model ----------------------------
(***************************************************************************)
(* Model of the scenario-outcome-analyzer: the analysis engine of          *)
(* src/scenario_analyzer.py (ScenarioAnalyzer) and the job store and       *)
(* background orchestration of src/api_server.py (analysis_store,          *)
(* create_analysis, perform_analysis and the read/delete handlers).        *)
(*                                                                         *)
(* Conventions.  Python floats that the code only compares and copies are  *)
(* kept in hundredths (0.25 is 25).  A Python value whose type the code    *)
(* does not fix (a field of an Outcome built from the provider's JSON) is  *)
(* a tagged record, see JNum..JList.  A Python call that may raise is an   *)
(* operator returning [ok, val, exc].                                      *)
(***************************************************************************)
EXTENDS Integers, Sequences, FiniteSets, Bags, TLC

(***************************************************************************)
(* Bounds of the model.                                                    *)
(***************************************************************************)
MaxJobs == 2        \* CreateAnalysis calls per behaviour
MaxLimit == 2       \* ListAnalyses limits range over -1..MaxLimit
MaxSeed == 1        \* string-hash seeds 0..MaxSeed of the process
HashModulus == 11   \* modulus of the modelled hash order

(***************************************************************************)
(* Program constants.                                                      *)
(***************************************************************************)
HighProbability == 30   \* o.probability > 0.3
MaxRiskRecs == 3        \* list(set(all_risks))[:3]
MaxOppRecs == 2         \* list(set(all_opportunities))[:2]


(***************************************************************************)
(* Strings.  TLC strings support Len, SubSeq and \o; a character is a      *)
(* string of length 1.                                                     *)
(***************************************************************************)
UpperLetters == "ABCDEFGHIJKLMNOPQRSTUVWXYZ"
LowerLetters == "abcdefghijklmnopqrstuvwxyz"
DigitChars == "0123456789"

CharAt(s, i) == SubSeq(s, i, i)
CharsOf(s) == {CharAt(s, i) : i \in 1..Len(s)}

\* the lower-case letter of each upper-case letter
UpperToLower ==
  [c \in CharsOf(UpperLetters) |->
     CharAt(LowerLetters, CHOOSE i \in 1..Len(UpperLetters) : CharAt(UpperLetters, i) = c)]

LowerChar(c) == IF c \in DOMAIN UpperToLower THEN UpperToLower[c] ELSE c

RECURSIVE Lower(_)
\* str.lower()
Lower(s) == IF Len(s) = 0 THEN "" ELSE LowerChar(CharAt(s, 1)) \o Lower(Tail(s))

\* kw in s
Contains(s, kw) ==
  \E i \in 1..(Len(s) - Len(kw) + 1) : SubSeq(s, i, i + Len(kw) - 1) = kw

\* \w of the re module, on ASCII text
WordChars ==
  CharsOf(LowerLetters) \cup CharsOf(UpperLetters) \cup CharsOf(DigitChars) \cup {"_"}

IsWordChar(c) == c \in WordChars

\* variant of WholeWord that accepts the keyword anywhere in the text
WholeWordLoose(s, kw) ==
  \E i \in 1..(Len(s) - Len(kw) + 1) : SubSeq(s, i, i + Len(kw) - 1) = kw

\* re.search(r'\b(kw)\b', s) for a keyword made of word characters
WholeWord(s, kw) ==
  \E i \in 1..(Len(s) - Len(kw) + 1) :
    /\ SubSeq(s, i, i + Len(kw) - 1) = kw
    /\ (i = 1 \/ ~IsWordChar(CharAt(s, i - 1)))
    /\ (i + Len(kw) - 1 = Len(s) \/ ~IsWordChar(CharAt(s, i + Len(kw))))

\* re.search(r'\b(k1|k2|k3)\b', s)
SearchAny(s, kws) == \E kw \in kws : WholeWord(s, kw)

RECURSIVE Join(_, _)
\* sep.join(parts)
Join(parts, sep) ==
  IF Len(parts) = 0 THEN ""
  ELSE IF Len(parts) = 1 THEN parts[1]
  ELSE parts[1] \o sep \o Join(Tail(parts), sep)

\* str(n) for an int 0 <= n
RECURSIVE IntStr(_)
IntStr(n) ==
  IF n < 10 THEN CharAt(DigitChars, n + 1)
  ELSE IntStr(n \div 10) \o CharAt(DigitChars, (n % 10) + 1)


(***************************************************************************)
(* Python values.  Optional[T] is a sequence of length 0 (None) or 1.      *)
(* A value decoded from JSON carries its type in t.                        *)
(***************************************************************************)
Nothing == <<>>
Some(x) == <<x>>
IsNone(opt) == Len(opt) = 0
\* bool(x) of an Optional[str]: None and "" are falsy
TruthyStr(opt) == Len(opt) = 1 /\ opt[1] # ""

JNum(n) == [t |-> "num", n |-> n, s |-> "", l |-> <<>>]
JStr(s) == [t |-> "str", n |-> 0, s |-> s, l |-> <<>>]
JNull == [t |-> "null", n |-> 0, s |-> "", l |-> <<>>]
JList(l) == [t |-> "list", n |-> 0, s |-> "", l |-> l]
StrList(ss) == JList([i \in 1..Len(ss) |-> JStr(ss[i])])

Ok(v) == [ok |-> TRUE, val |-> v, exc |-> ""]
Raise(e) == [ok |-> FALSE, val |-> <<>>, exc |-> e]

\* repr of a JSON number kept in hundredths: 5 -> "5", 1.5 -> "1.5", 0.25 -> "0.25"
NumStr(n) ==
  LET a == IF n < 0 THEN 0 - n ELSE n
      sign == IF n < 0 THEN "-" ELSE ""
      frac == a % 100
  IN  sign \o IntStr(a \div 100) \o
      (IF frac = 0 THEN ""
       ELSE IF frac % 10 = 0 THEN "." \o IntStr(frac \div 10)
       ELSE "." \o IntStr(frac \div 10) \o IntStr(frac % 10))

\* str(v) as an f-string interpolates it
FormatValue(v) ==
  CASE v.t = "str" -> v.s
    [] v.t = "num" -> NumStr(v.n)
    [] v.t = "null" -> "None"
    [] OTHER -> "[" \o Join([i \in 1..Len(v.l) |-> "'" \o v.l[i].s \o "'"], ", ") \o "]"

(***************************************************************************)
(* Outcome (scenario_analyzer.py:15-24): a dataclass, so construction      *)
(* stores the seven fields as given and checks neither type nor range.     *)
(***************************************************************************)
Outcome(description, probability, impact_level, risk_factors, opportunities, timeline, confidence_score) ==
  [description |-> description, probability |-> probability,
   impact_level |-> impact_level, risk_factors |-> risk_factors,
   opportunities |-> opportunities, timeline |-> timeline,
   confidence_score |-> confidence_score]

\* variant of OptimalOutcome whose risk factors name no external cause
OptimalOutcomeInward ==
  Outcome(JStr("Optimal outcome - all factors align favorably"),
          JNum(25), JStr("High"),
          StrList(<<"Overconfidence", "Sudden disruptions">>),
          StrList(<<"Maximum benefit realization", "Positive momentum">>),
          JStr("Short to medium term"), JNum(70))

\* lines 185-193
OptimalOutcome ==
  Outcome(JStr("Optimal outcome - all factors align favorably"),
          JNum(25), JStr("High"),
          StrList(<<"Overconfidence", "External disruptions">>),
          StrList(<<"Maximum benefit realization", "Positive momentum">>),
          JStr("Short to medium term"), JNum(70))

\* lines 196-204
ExpectedOutcome ==
  Outcome(JStr("Expected outcome - moderate success with some challenges"),
          JNum(45), JStr("Medium"),
          StrList(<<"Resource constraints", "Execution challenges">>),
          StrList(<<"Learning opportunities", "Incremental progress">>),
          JStr("Medium term"), JNum(85))

\* lines 207-215
DifficultOutcome ==
  Outcome(JStr("Difficult outcome - significant obstacles encountered"),
          JNum(25), JStr("Medium"),
          StrList(<<"Major setbacks", "Resource depletion">>),
          StrList(<<"Resilience building", "Alternative paths">>),
          JStr("Extended timeline"), JNum(75))

\* lines 218-226
AdverseOutcome ==
  Outcome(JStr("Adverse outcome - multiple failures compound"),
          JNum(5), JStr("High"),
          StrList(<<"Complete failure", "Reputation damage">>),
          StrList(<<"Lessons learned", "Fresh start potential">>),
          JStr("Long term recovery"), JNum(60))

\* variant of RuleBasedOutcomes that leaves the adverse outcome out when
\* the situation matched no category
RuleBasedWithoutAdverse(situation, context_factors) ==
  IF context_factors = <<"General situational context">>
  THEN <<OptimalOutcome, ExpectedOutcome, DifficultOutcome>>
  ELSE <<OptimalOutcome, ExpectedOutcome, DifficultOutcome, AdverseOutcome>>

\* _rule_based_outcomes: the canonical four, whatever the arguments
RuleBasedOutcomes(situation, context_factors) ==
  <<OptimalOutcome, ExpectedOutcome, DifficultOutcome, AdverseOutcome>>

(***************************************************************************)
(* _extract_context_factors.  A context is Optional[Dict]: None, or the    *)
(* sequence of its <<key, value>> items in iteration order.                *)
(***************************************************************************)
ExtractContextFactors(situation, context) ==
  LET low == Lower(situation)
      cat(kws, name) == IF SearchAny(low, kws) THEN <<name>> ELSE <<>>
      items == IF IsNone(context) THEN <<>> ELSE context[1]
      factors ==
        cat({"business", "company", "startup"}, "Business/Commercial context")
        \o cat({"market", "economy", "financial"}, "Economic factors")
        \o cat({"team", "people", "employee"}, "Human resources")
        \o cat({"technology", "tech", "digital"}, "Technology factors")
        \o cat({"time", "deadline", "urgent"}, "Time constraints")
        \o [i \in 1..Len(items) |-> items[i][1] \o ": " \o items[i][2]]
  IN  IF Len(factors) > 0 THEN factors ELSE <<"General situational context">>

(***************************************************************************)
(* _ai_generate_outcomes.  What the provider call produced is a payload:   *)
(*   kind "error"    the create() call raised                              *)
(*   kind "notjson"  json.loads raised on the message content              *)
(*   kind "scalar"   the JSON is a number, true, false or null: iterating  *)
(*                   it raises TypeError                                   *)
(*   kind "items"    the JSON is iterable (an array; or an object or a     *)
(*                   string, whose iteration yields strings); items are    *)
(*                   its elements in order.                                *)
(* An element is [keys, o]: keys tells how its keys relate to the seven    *)
(* fields of Outcome ("exact", "missing", "extra"), or "notmapping" when   *)
(* the element is no object; o holds the field values when keys = "exact". *)
(* Building an Outcome from an element raises TypeError unless its keys    *)
(* are "exact".                                                            *)
(***************************************************************************)
AiAccepts(payload) ==
  /\ payload.kind = "items"
  /\ \A i \in 1..Len(payload.items) : payload.items[i].keys = "exact"

\* variant of AiGenerateOutcomes that keeps the elements converted before
\* the failure and appends the rule-based outcomes
AiGenerateOutcomesPartial(situation, context_factors, payload) ==
  IF AiAccepts(payload)
  THEN [i \in 1..Len(payload.items) |-> payload.items[i].o]
  ELSE LET items == IF payload.kind = "items" THEN payload.items ELSE <<>>
           good == {i \in 0..Len(items) :
                      \A j \in 1..i : items[j].keys = "exact"}
           n == CHOOSE i \in good : \A j \in good : j <= i
       IN  [i \in 1..n |-> items[i].o] \o RuleBasedOutcomes(situation, context_factors)

AiGenerateOutcomes(situation, context_factors, payload) ==
  IF AiAccepts(payload)
  THEN [i \in 1..Len(payload.items) |-> payload.items[i].o]
  ELSE RuleBasedOutcomes(situation, context_factors)

\* _generate_outcomes: self.client is set iff the api_key was truthy
GenerateOutcomes(client, situation, context_factors, payload) ==
  IF client
  THEN AiGenerateOutcomes(situation, context_factors, payload)
  ELSE RuleBasedOutcomes(situation, context_factors)

(***************************************************************************)
(* Pooling a field of every outcome: all_x.extend(outcome.x) iterates the  *)
(* value: a list gives its elements, a str its characters, anything else   *)
(* raises TypeError.                                                       *)
(***************************************************************************)
IterValue(v) ==
  CASE v.t = "list" -> Ok(v.l)
    [] v.t = "str" -> Ok([i \in 1..Len(v.s) |-> JStr(CharAt(v.s, i))])
    [] OTHER -> Raise("TypeError")

RECURSIVE Pool(_, _)
Pool(outcomes, field) ==
  IF Len(outcomes) = 0 THEN Ok(<<>>)
  ELSE LET first == IterValue(outcomes[1][field])
           rest == Pool(Tail(outcomes), field)
       IN  IF ~first.ok THEN first
           ELSE IF ~rest.ok THEN rest
           ELSE Ok(first.val \o rest.val)

RECURSIVE AnyContainsExact(_, _)
\* variant of AnyContains that compares without lower()
AnyContainsExact(kw, risks) ==
  IF Len(risks) = 0 THEN "false"
  ELSE IF risks[1].t # "str" THEN "raise"
  ELSE IF Contains(risks[1].s, kw) THEN "true"
  ELSE AnyContainsExact(kw, Tail(risks))

RECURSIVE AnyContains(_, _)
\* any(kw in risk.lower() for risk in risks): "true", "false", or "raise"
\* when a risk reached before the first match has no lower()
AnyContains(kw, risks) ==
  IF Len(risks) = 0 THEN "false"
  ELSE IF risks[1].t # "str" THEN "raise"
  ELSE IF Contains(Lower(risks[1].s), kw) THEN "true"
  ELSE AnyContains(kw, Tail(risks))

\* _identify_key_variables
IdentifyKeyVariables(situation, outcomes) ==
  LET low == Lower(situation)
      has(kw, name) == IF Contains(low, kw) THEN <<name>> ELSE <<>>
      fromSituation ==
        has("decision", "Decision quality and timing")
        \o has("resource", "Resource availability")
        \o has("market", "Market conditions")
        \o has("team", "Team performance and dynamics")
      pooled == Pool(outcomes, "risk_factors")
      r1 == AnyContains("resource", pooled.val)
      r2 == AnyContains("execution", pooled.val)
      r3 == AnyContains("external", pooled.val)
      variables ==
        fromSituation
        \o (IF r1 = "true" THEN <<"Resource management">> ELSE <<>>)
        \o (IF r2 = "true" THEN <<"Execution capability">> ELSE <<>>)
        \o (IF r3 = "true" THEN <<"External environment">> ELSE <<>>)
  IN  IF ~pooled.ok THEN Raise("TypeError")
      ELSE IF r1 = "raise" \/ r2 = "raise" \/ r3 = "raise" THEN Raise("AttributeError")
      ELSE IF Len(variables) > 0 THEN Ok(variables)
      ELSE Ok(<<"Situational dynamics", "External factors">>)

(***************************************************************************)
(* list(set(xs)).  set() raises TypeError on an unhashable element (a      *)
(* list).  The iteration order of a set of strings follows the process's   *)
(* string hash seed: it is fixed within a process and arbitrary across     *)
(* processes.  The order is modelled as the distinct elements, numbered by *)
(* first occurrence, sorted by a hash of that number under the seed.       *)
(***************************************************************************)
RECURSIVE Dedupe(_)
Dedupe(xs) ==
  IF Len(xs) = 0 THEN <<>>
  ELSE LET init == Dedupe(SubSeq(xs, 1, Len(xs) - 1))
           last == xs[Len(xs)]
       IN  IF \E i \in 1..Len(init) : init[i] = last THEN init ELSE Append(init, last)

HashOf(i, seed) == (i * (seed + 1)) % HashModulus

ListOfSet(xs, seed) ==
  LET d == Dedupe(xs)
      k == Len(d)
      before(j, i) ==
        \/ HashOf(j, seed) < HashOf(i, seed)
        \/ (HashOf(j, seed) = HashOf(i, seed) /\ j < i)
      rank(i) == Cardinality({j \in 1..k : before(j, i)}) + 1
  IN  IF \E i \in 1..Len(xs) : xs[i].t = "list" THEN Raise("TypeError")
      ELSE Ok([r \in 1..k |-> d[CHOOSE i \in 1..k : rank(i) = r]])

\* variant of Take that keeps the whole list
TakeAll(xs, n) == xs

\* xs[:n] for n >= 0
Take(xs, n) == SubSeq(xs, 1, IF n < Len(xs) THEN n ELSE Len(xs))

\* o.probability > 0.3: a str, None or list against a float raises TypeError
RECURSIVE HighProbOutcomes(_)
HighProbOutcomes(outcomes) ==
  IF Len(outcomes) = 0 THEN Ok(<<>>)
  ELSE LET o == outcomes[1]
           rest == HighProbOutcomes(Tail(outcomes))
       IN  IF o.probability.t # "num" THEN Raise("TypeError")
           ELSE IF ~rest.ok THEN rest
           ELSE IF o.probability.n > HighProbability THEN Ok(<<o>> \o rest.val)
           ELSE rest

\* variant of GeneralAdvice with the two entries in the other order
GeneralAdviceSwapped ==
  <<"Maintain flexibility for scenario pivots", "Monitor key variables closely">>

\* lines 289-290: the general advice appended last
GeneralAdvice ==
  <<"Monitor key variables closely", "Maintain flexibility for scenario pivots">>

\* _generate_recommendations
GenerateRecommendations(situation, outcomes, seed) ==
  LET high == HighProbOutcomes(outcomes)
      prepare ==
        IF Len(high.val) > 0
        THEN <<"Prepare primarily for: " \o FormatValue(high.val[1].description)>>
        ELSE <<>>
      all_risks == Pool(outcomes, "risk_factors")
      risk_list == ListOfSet(all_risks.val, seed)
      common_risks == Take(risk_list.val, MaxRiskRecs)
      all_opportunities == Pool(outcomes, "opportunities")
      opp_list == ListOfSet(all_opportunities.val, seed)
      common_opportunities == Take(opp_list.val, MaxOppRecs)
  IN  IF ~high.ok THEN high
      ELSE IF ~all_risks.ok THEN all_risks
      ELSE IF ~risk_list.ok THEN risk_list
      ELSE IF ~all_opportunities.ok THEN all_opportunities
      ELSE IF ~opp_list.ok THEN opp_list
      ELSE Ok(prepare
              \o [i \in 1..Len(common_risks) |->
                    "Mitigate risk: " \o FormatValue(common_risks[i])]
              \o [i \in 1..Len(common_opportunities) |->
                    "Leverage opportunity: " \o FormatValue(common_opportunities[i])]
              \o GeneralAdvice)

(***************************************************************************)
(* datetime.now().isoformat(): a tick t is t half seconds after a fixed    *)
(* instant; isoformat drops the fraction when the microsecond is 0.        *)
(***************************************************************************)
IsoFormat(t) ==
  "2026-01-01T00:00:0" \o IntStr(t \div 2) \o (IF t % 2 = 0 THEN "" ELSE ".500000")

\* ScenarioAnalysis (scenario_analyzer.py:26-34), a dataclass
ScenarioAnalysis(situation, context_factors, outcomes, key_variables, recommendations, analysis_timestamp) ==
  [situation |-> situation, context_factors |-> context_factors,
   outcomes |-> outcomes, key_variables |-> key_variables,
   recommendations |-> recommendations,
   analysis_timestamp |-> analysis_timestamp]

\* ScenarioAnalyzer.analyze; client is bool(api_key), now the tick of line 108
Analyze(client, situation, context, payload, seed, now) ==
  LET context_factors == ExtractContextFactors(situation, context)
      outcomes == GenerateOutcomes(client, situation, context_factors, payload)
      key_variables == IdentifyKeyVariables(situation, outcomes)
      recommendations == GenerateRecommendations(situation, outcomes, seed)
  IN  IF ~key_variables.ok THEN key_variables
      ELSE IF ~recommendations.ok THEN recommendations
      ELSE Ok(ScenarioAnalysis(situation, context_factors, outcomes,
                               key_variables.val, recommendations.val,
                               IsoFormat(now)))

(***************************************************************************)
(* The API server (api_server.py).                                         *)
(*                                                                         *)
(* analysis_store  the module-level dict: job id -> record                 *)
(* nextId          ids handed out so far + 1 (uuid4 never repeats an id)   *)
(* background      bag of the perform_analysis tasks added by              *)
(*                 create_analysis and not started yet                     *)
(* running         the perform_analysis call that is between line 102 and  *)
(*                 its last store update, if any.  perform_analysis is a   *)
(*                 coroutine without an await, and analyze is a plain      *)
(*                 call: while it runs it holds the event loop and no      *)
(*                 other handler runs.                                     *)
(* escaped         ids whose perform_analysis call ended by an exception   *)
(* trail           history: the values the status of each job has held     *)
(* clock           the tick datetime.now() returned last; the clock of the *)
(*                 host does not run backwards                             *)
(* hashseed        the string hash seed of the process                     *)
(* resp            what the last handler returned                          *)
(* engine          one analyze call followed stage by stage (SpecEngine)   *)
(***************************************************************************)
VARIABLES analysis_store, nextId, background, running, escaped, trail,
          clock, hashseed, resp, engine

vars == <<analysis_store, nextId, background, running, escaped, trail,
          clock, hashseed, resp, engine>>

Ids == 1..MaxJobs
\* the values of datetime.now(), in half seconds after a fixed instant
Ticks == {0, 1}
\* the values datetime.now() can return at the next call
NowTicks == {t \in Ticks : t >= clock}
Seeds == 0..MaxSeed

\* AnalysisRequest (lines 40-44)
AnalysisRequest(situation, context, api_key, model) ==
  [situation |-> situation, context |-> context, api_key |-> api_key, model |-> model]

\* the requests clients send
Requests ==
  { AnalysisRequest("Team decision", Nothing, Nothing, "gpt-4"),
    AnalysisRequest("Launch a startup", Some(<< <<"industry", "Technology">> >>),
                    Some("sk-1"), "gpt-4") }

InRange == Outcome(JStr("Steady growth"), JNum(60), JStr("Medium"),
                   StrList(<<"Resource limits">>), StrList(<<"New market">>),
                   JStr("1 year"), JNum(80))
OutOfRange == Outcome(JStr("Windfall"), JNum(150), JStr("High"),
                      StrList(<<"External shock">>), StrList(<<"Scale">>),
                      JStr("2 years"), JNum(-10))
IllTyped == Outcome(JStr("Unclear"), JStr("high"), JStr("Low"),
                    StrList(<<"Churn">>), StrList(<<"Pivot">>),
                    JStr("unknown"), JNum(50))

\* probability exactly 0.3; a risk factor and an opportunity repeated
Borderline == Outcome(JStr("Slow start"), JNum(30), JStr("Low"),
                      StrList(<<"Resource limits", "Execution gaps", "Resource limits">>),
                      StrList(<<"New market", "Scale", "Pivot">>),
                      JStr("6 months"), JNum(40))

Elem(keys, o) == [keys |-> keys, o |-> o]
Payload(kind, items) == [kind |-> kind, items |-> items]

\* what the provider answers to the jobs and to AnalyzeSync
JobPayloads ==
  { Payload("error", <<>>),
    Payload("items", <<Elem("exact", InRange)>>),
    Payload("items", <<Elem("exact", IllTyped)>>) }

Task(analysis_id, request) == [analysis_id |-> analysis_id, request |-> request]

\* a response: the handler, the id it was asked about (0: none), the HTTP
\* status code, the detail of an HTTPException, and the body
Response(op, id, code, detail, body) ==
  [op |-> op, id |-> id, code |-> code, detail |-> detail, body |-> body]

\* AnalysisStatus (lines 65-70)
AnalysisStatus(analysis_id, status, created_at, completed_at, error) ==
  [analysis_id |-> analysis_id, status |-> status, created_at |-> created_at,
   completed_at |-> completed_at, error |-> error]

\* variant of NewRecord that stamps completed_at at creation
NewRecordStamped(analysis_id, request, now) ==
  [analysis_id |-> analysis_id, status |-> "queued", created_at |-> IsoFormat(now),
   request |-> request, analysis |-> Nothing,
   completed_at |-> Some(IsoFormat(now)), error |-> Nothing]

\* the record create_analysis stores (lines 154-162)
NewRecord(analysis_id, request, now) ==
  [analysis_id |-> analysis_id, status |-> "queued", created_at |-> IsoFormat(now),
   request |-> request, analysis |-> Nothing, completed_at |-> Nothing,
   error |-> Nothing]

\* d[k] = v on a dict
Put(d, k, v) == [i \in DOMAIN d \cup {k} |-> IF i = k THEN v ELSE d[i]]
\* variant of Del that removes nothing
DelNothing(d, k) == d

\* del d[k]
Del(d, k) == [i \in DOMAIN d \ {k} |-> d[i]]

NoResponse == Response("none", 0, 0, "", <<>>)

\* the event loop is free to start a handler or a background task: no
\* perform_analysis call holds it and the last response has been sent
Idle == IsNone(running) /\ resp = NoResponse

\* no analyze call is followed stage by stage
EngineOff == [pc |-> "off"]

Init ==
  /\ analysis_store = <<>>
  /\ nextId = 1
  /\ background = EmptyBag
  /\ running = Nothing
  /\ escaped = {}
  /\ trail = [i \in Ids |-> <<>>]
  /\ clock = 0
  /\ hashseed \in Seeds
  /\ resp = NoResponse
  /\ engine = EngineOff

\* create_analysis (lines 146-171)
CreateAnalysis(request, now) ==
  /\ Idle
  /\ nextId <= MaxJobs
  /\ LET analysis_id == nextId
         record == NewRecord(analysis_id, request, now)
     IN  /\ analysis_store' = Put(analysis_store, analysis_id, record)
         /\ background' = background (+) SetToBag({Task(analysis_id, request)})
         /\ trail' = [trail EXCEPT ![analysis_id] = <<record.status>>]
         /\ resp' = Response("CreateAnalysis", analysis_id, 200, "",
                             <<AnalysisStatus(analysis_id, "queued",
                                              record.created_at, Nothing, Nothing)>>)
  /\ nextId' = nextId + 1
  /\ clock' = now
  /\ UNCHANGED <<running, escaped, hashseed, engine>>

\* variant of SetProcessing that marks the job failed when it starts
SetProcessingFailed(record) == [record EXCEPT !.status = "failed"]

\* variant of SetProcessing that leaves the status as it was
SetProcessingSkipped(record) == record

\* analysis_store[analysis_id]["status"] = "processing" (line 102)
SetProcessing(record) == [record EXCEPT !.status = "processing"]

\* variant of StoreCompleted that marks the job completed before the
\* analysis is stored
StoreCompletedEarly(record, analysis, now) ==
  [record EXCEPT !.status = "completed", !.completed_at = Some(IsoFormat(now))]

\* variant of StoreCompleted that also restamps created_at
StoreCompletedRestamped(record, analysis, now) ==
  [record EXCEPT !.status = "completed", !.analysis = Some(analysis),
                 !.completed_at = Some(IsoFormat(now)),
                 !.created_at = IsoFormat(now)]

\* the update of lines 114-118
StoreCompleted(record, analysis, now) ==
  [record EXCEPT !.status = "completed", !.analysis = Some(analysis),
                 !.completed_at = Some(IsoFormat(now))]

\* the update of lines 121-125
\* variant of StoreFailed that does not stamp completed_at
StoreFailedUnstamped(record, error, now) ==
  [record EXCEPT !.status = "failed", !.error = Some(error)]

StoreFailed(record, error, now) ==
  [record EXCEPT !.status = "failed", !.error = Some(error),
                 !.completed_at = Some(IsoFormat(now))]

\* variant of RunAnalyzer in which an analyzer without a key cannot run
RunAnalyzerNeedsKey(request, clientFails, payload, seed, now) ==
  IF ~TruthyStr(request.api_key) \/ clientFails
  THEN Raise("OpenAIError")
  ELSE Analyze(TruthyStr(request.api_key), request.situation, request.context,
               payload, seed, now)

\* ScenarioAnalyzer(api_key, model).analyze(situation, context) as both
\* perform_analysis (105-111) and analyze_sync (216-222) run it: the client
\* is built iff the key is truthy, and building it may raise
RunAnalyzer(request, clientFails, payload, seed, now) ==
  IF TruthyStr(request.api_key) /\ clientFails
  THEN Raise("OpenAIError")
  ELSE Analyze(TruthyStr(request.api_key), request.situation, request.context,
               payload, seed, now)

\* RunAnalyzer tabulated once over the inputs the server actions draw
RECURSIVE TabulateAnalyzer(_)
TabulateAnalyzer(inputs) ==
  IF inputs = {} THEN <<>>
  ELSE LET x == CHOOSE x \in inputs : TRUE
       IN  (x :> RunAnalyzer(x[1], x[2], x[3], x[4], x[5]))
           @@ TabulateAnalyzer(inputs \ {x})

AnalyzerTable ==
  TabulateAnalyzer(Requests \X BOOLEAN \X JobPayloads \X Seeds \X Ticks)

AnalyzerRun(request, clientFails, payload, seed, now) ==
  AnalyzerTable[<<request, clientFails, payload, seed, now>>]

\* variant of PerformStart that writes the status of a deleted job into a
\* new record under its id
PerformStartUpsert(task) ==
  /\ Idle
  /\ BagIn(task, background)
  /\ background' = background (-) SetToBag({task})
  /\ analysis_store' =
       IF task.analysis_id \in DOMAIN analysis_store
       THEN [analysis_store EXCEPT ![task.analysis_id] = SetProcessing(@)]
       ELSE Put(analysis_store, task.analysis_id,
                SetProcessing(NewRecord(task.analysis_id, task.request, clock)))
  /\ trail' = [trail EXCEPT ![task.analysis_id] =
                  Append(@, analysis_store'[task.analysis_id].status)]
  /\ running' = Some(task)
  /\ UNCHANGED <<nextId, escaped, clock, hashseed, resp, engine>>

(***************************************************************************)
(* perform_analysis (lines 98-125), first part: the task starts and line   *)
(* 102 runs.  With the record deleted meanwhile, line 102 raises KeyError, *)
(* the handler's own update (line 121) raises KeyError again, and that one *)
(* leaves the coroutine.                                                   *)
(***************************************************************************)
PerformStart(task) ==
  /\ Idle
  /\ BagIn(task, background)
  /\ background' = background (-) SetToBag({task})
  /\ IF task.analysis_id \in DOMAIN analysis_store
     THEN /\ analysis_store' =
               [analysis_store EXCEPT ![task.analysis_id] = SetProcessing(@)]
          /\ trail' = [trail EXCEPT ![task.analysis_id] =
                          Append(@, analysis_store'[task.analysis_id].status)]
          /\ running' = Some(task)
          /\ escaped' = escaped
     ELSE /\ escaped' = escaped \cup {task.analysis_id}
          /\ UNCHANGED <<analysis_store, trail, running>>
  /\ UNCHANGED <<nextId, clock, hashseed, resp, engine>>

\* variant of PerformEnd that stores the terminal update in the record
\* created last
PerformEndLatest(id, result, now2) ==
  IF nextId - 1 \in DOMAIN analysis_store
  THEN /\ analysis_store' =
            [analysis_store EXCEPT ![nextId - 1] =
               IF result.ok THEN StoreCompleted(@, result.val, now2)
               ELSE StoreFailed(@, result.exc, now2)]
       /\ trail' = [trail EXCEPT ![nextId - 1] =
                       Append(@, analysis_store'[nextId - 1].status)]
       /\ escaped' = escaped
  ELSE /\ escaped' = escaped \cup {id}
       /\ UNCHANGED <<analysis_store, trail>>

(***************************************************************************)
(* perform_analysis, second part (lines 105-125): the analyzer runs and    *)
(* the terminal update is stored.  now1 is the tick of the analysis        *)
(* timestamp, now2 the tick of completed_at.                               *)
(***************************************************************************)
PerformEnd(id, result, now2) ==
  IF id \in DOMAIN analysis_store
  THEN /\ analysis_store' =
            [analysis_store EXCEPT ![id] =
               IF result.ok THEN StoreCompleted(@, result.val, now2)
               ELSE StoreFailed(@, result.exc, now2)]
       /\ trail' = [trail EXCEPT ![id] = Append(@, analysis_store'[id].status)]
       /\ escaped' = escaped
  ELSE /\ escaped' = escaped \cup {id}
       /\ UNCHANGED <<analysis_store, trail>>

PerformFinish(clientFails, payload, now1, now2) ==
  /\ ~IsNone(running)
  /\ PerformEnd(running[1].analysis_id,
                AnalyzerRun(running[1].request, clientFails, payload, hashseed, now1),
                now2)
  /\ running' = Nothing
  /\ clock' = now2
  /\ UNCHANGED <<nextId, background, hashseed, resp, engine>>

\* variant of GetStatus that drops the record once its status was read
GetStatusConsuming(analysis_id) ==
  /\ Idle
  /\ resp' =
       IF analysis_id \notin DOMAIN analysis_store
       THEN Response("GetStatus", analysis_id, 404, "Analysis not found", <<>>)
       ELSE Response("GetStatus", analysis_id, 200, "",
                     <<AnalysisStatus(analysis_id, analysis_store[analysis_id].status,
                                      analysis_store[analysis_id].created_at,
                                      analysis_store[analysis_id].completed_at,
                                      analysis_store[analysis_id].error)>>)
  /\ analysis_store' =
       [i \in DOMAIN analysis_store \ {analysis_id} |-> analysis_store[i]]
  /\ UNCHANGED <<nextId, background, running, escaped, trail, clock, hashseed,
                 engine>>

\* get_analysis_status (lines 173-188)
GetStatus(analysis_id) ==
  /\ Idle
  /\ resp' =
       IF analysis_id \notin DOMAIN analysis_store
       THEN Response("GetStatus", analysis_id, 404, "Analysis not found", <<>>)
       ELSE LET record == analysis_store[analysis_id]
            IN  Response("GetStatus", analysis_id, 200, "",
                         <<AnalysisStatus(analysis_id, record.status, record.created_at,
                                          record.completed_at, record.error)>>)
  /\ UNCHANGED <<analysis_store, nextId, background, running, escaped, trail,
                 clock, hashseed, engine>>

\* delete_analysis (lines 258-267)
DeleteAnalysis(analysis_id) ==
  /\ Idle
  /\ IF analysis_id \notin DOMAIN analysis_store
     THEN /\ resp' = Response("DeleteAnalysis", analysis_id, 404, "Analysis not found", <<>>)
          /\ analysis_store' = analysis_store
     ELSE /\ analysis_store' = Del(analysis_store, analysis_id)
          /\ resp' = Response("DeleteAnalysis", analysis_id, 200,
                              "Analysis deleted successfully", <<>>)
  /\ UNCHANGED <<nextId, background, running, escaped, trail, clock, hashseed,
                 engine>>

(***************************************************************************)
(* OutcomeResponse(...) and AnalysisResponse(...) are pydantic models:     *)
(* building one validates the field types (lines 46-63).  A str field      *)
(* accepts str and rejects None and lists.  A float field accepts numbers  *)
(* and rejects None, lists and non-numeric text.  A List[str] field        *)
(* accepts a list of valid str and rejects str and None.  (Whether a       *)
(* number is accepted where a str is declared depends on the pydantic      *)
(* version; no payload of the server actions has one there.)               *)
(***************************************************************************)
StrFieldOk(v) == v.t = "str"
FloatFieldOk(v) == v.t = "num"
StrListFieldOk(v) == v.t = "list" /\ \A i \in 1..Len(v.l) : StrFieldOk(v.l[i])

OutcomeFieldsOk(o) ==
  /\ StrFieldOk(o.description)
  /\ FloatFieldOk(o.probability)
  /\ StrFieldOk(o.impact_level)
  /\ StrListFieldOk(o.risk_factors)
  /\ StrListFieldOk(o.opportunities)
  /\ StrFieldOk(o.timeline)
  /\ FloatFieldOk(o.confidence_score)

\* convert_outcome_to_response (lines 73-83), for an outcome that validates
ConvertOutcomeToResponse(o) ==
  Outcome(o.description, o.probability, o.impact_level, o.risk_factors,
          o.opportunities, o.timeline, o.confidence_score)

\* convert_analysis_to_response (lines 85-96)
ConvertAnalysisToResponse(analysis, analysis_id) ==
  IF \A i \in 1..Len(analysis.outcomes) : OutcomeFieldsOk(analysis.outcomes[i])
  THEN Ok([analysis_id |-> analysis_id,
           situation |-> analysis.situation,
           context_factors |-> analysis.context_factors,
           outcomes |-> [i \in 1..Len(analysis.outcomes) |->
                           ConvertOutcomeToResponse(analysis.outcomes[i])],
           key_variables |-> analysis.key_variables,
           recommendations |-> analysis.recommendations,
           analysis_timestamp |-> analysis.analysis_timestamp,
           status |-> "completed"])
  ELSE Raise("ValidationError")

\* variant of ResultResponse without the status check of lines 197-201
ResultResponseUnchecked(analysis_id) ==
  IF analysis_id \notin DOMAIN analysis_store
  THEN Response("GetResult", analysis_id, 404, "Analysis not found", <<>>)
  ELSE IF IsNone(analysis_store[analysis_id].analysis)
  THEN Response("GetResult", analysis_id, 500, "Analysis data not available", <<>>)
  ELSE Response("GetResult", analysis_id, 200, "",
                <<ConvertAnalysisToResponse(analysis_store[analysis_id].analysis[1],
                                            analysis_id).val>>)

\* line 208 of get_analysis_result: a ValidationError of the conversion is
\* not handled and the framework answers 500
ConvertedResponse(analysis_id, converted) ==
  IF converted.ok
  THEN Response("GetResult", analysis_id, 200, "", <<converted.val>>)
  ELSE Response("GetResult", analysis_id, 500, "Internal Server Error", <<>>)

\* get_analysis_result (lines 190-208): what it answers in the current store
ResultResponse(analysis_id) ==
  IF analysis_id \notin DOMAIN analysis_store
  THEN Response("GetResult", analysis_id, 404, "Analysis not found", <<>>)
  ELSE IF analysis_store[analysis_id].status # "completed"
  THEN Response("GetResult", analysis_id, 400,
                "Analysis not completed. Status: "
                  \o analysis_store[analysis_id].status, <<>>)
  ELSE IF IsNone(analysis_store[analysis_id].analysis)
  THEN Response("GetResult", analysis_id, 500, "Analysis data not available", <<>>)
  ELSE ConvertedResponse(analysis_id,
         ConvertAnalysisToResponse(analysis_store[analysis_id].analysis[1],
                                   analysis_id))

GetResult(analysis_id) ==
  /\ Idle
  /\ resp' = ResultResponse(analysis_id)
  /\ UNCHANGED <<analysis_store, nextId, background, running, escaped, trail,
                 clock, hashseed, engine>>

\* analyze_sync (lines 210-229); the id of its response is a fresh uuid,
\* written 0, and is no key of the store
SyncResponse(result, converted) ==
  IF ~result.ok
  THEN Response("AnalyzeSync", 0, 500, "Analysis failed: " \o result.exc, <<>>)
  ELSE IF ~converted.ok
  THEN Response("AnalyzeSync", 0, 500, "Analysis failed: " \o converted.exc, <<>>)
  ELSE Response("AnalyzeSync", 0, 200, "", <<converted.val>>)

\* lines 224-226 of analyze_sync: the conversion of a finished analysis
SyncConvert(result) ==
  SyncResponse(result, ConvertAnalysisToResponse(result.val, 0))

\* variant of AnalyzeSync that keeps a record of the call in the store
AnalyzeSyncRecorded(request, clientFails, payload, now) ==
  /\ Idle
  /\ nextId <= MaxJobs
  /\ resp' = SyncConvert(AnalyzerRun(request, clientFails, payload, hashseed, now))
  /\ analysis_store' = Put(analysis_store, nextId, NewRecord(nextId, request, now))
  /\ trail' = [trail EXCEPT ![nextId] = <<"queued">>]
  /\ nextId' = nextId + 1
  /\ clock' = now
  /\ UNCHANGED <<background, running, escaped, hashseed, engine>>

AnalyzeSync(request, clientFails, payload, now) ==
  /\ Idle
  /\ resp' = SyncConvert(AnalyzerRun(request, clientFails, payload, hashseed, now))
  /\ clock' = now
  /\ UNCHANGED <<analysis_store, nextId, background, running, escaped, trail,
                 hashseed, engine>>

(***************************************************************************)
(* list_analyses (lines 231-256).                                          *)
(***************************************************************************)
\* ord() of the characters of an isoformat timestamp
Ord ==
  ("-" :> 45) @@ ("." :> 46) @@ ("0" :> 48) @@ ("1" :> 49) @@ ("2" :> 50)
  @@ ("3" :> 51) @@ ("4" :> 52) @@ ("5" :> 53) @@ ("6" :> 54) @@ ("7" :> 55)
  @@ ("8" :> 56) @@ ("9" :> 57) @@ (":" :> 58) @@ ("T" :> 84)

RECURSIVE StrLess(_, _)
\* a < b on str: by code point, a proper prefix first
StrLess(a, b) ==
  IF Len(b) = 0 THEN FALSE
  ELSE IF Len(a) = 0 THEN TRUE
  ELSE IF CharAt(a, 1) = CharAt(b, 1) THEN StrLess(Tail(a), Tail(b))
  ELSE Ord[CharAt(a, 1)] < Ord[CharAt(b, 1)]

\* StrLess tabulated once over the timestamps of the model
RECURSIVE TabulateLess(_)
TabulateLess(pairs) ==
  LET x == CHOOSE x \in pairs : TRUE
      one == x :> StrLess(x[1], x[2])
  IN  IF pairs \ {x} = {} THEN one ELSE one @@ TabulateLess(pairs \ {x})

Timestamps == {IsoFormat(t) : t \in Ticks}
LessTable == TabulateLess(Timestamps \X Timestamps)
CreatedLess(a, b) == LessTable[<<a.created_at, b.created_at>>]

\* list(analysis_store.values()): a dict iterates in insertion order, which
\* is the order of the ids
RECURSIVE StoreValues(_)
StoreValues(n) ==
  IF n = 0 THEN <<>>
  ELSE StoreValues(n - 1)
       \o (IF n \in DOMAIN analysis_store THEN <<analysis_store[n]>> ELSE <<>>)

\* [a for a in analyses if a["status"] == status]
RECURSIVE FilterStatus(_, _)
FilterStatus(analyses, status) ==
  IF Len(analyses) = 0 THEN <<>>
  ELSE (IF analyses[1].status = status THEN <<analyses[1]>> ELSE <<>>)
       \o FilterStatus(Tail(analyses), status)

\* one step of the stable descending sort: a goes behind every element that
\* is not smaller than it
RECURSIVE InsertDesc(_, _)
InsertDesc(sorted, a) ==
  IF Len(sorted) = 0 THEN <<a>>
  ELSE IF CreatedLess(sorted[1], a) THEN <<a>> \o sorted
  ELSE <<sorted[1]>> \o InsertDesc(Tail(sorted), a)

RECURSIVE SortNewestFirst(_)
\* analyses.sort(key=lambda x: x["created_at"], reverse=True)
SortNewestFirst(analyses) ==
  IF Len(analyses) = 0 THEN <<>>
  ELSE InsertDesc(SortNewestFirst(SubSeq(analyses, 1, Len(analyses) - 1)),
                  analyses[Len(analyses)])

\* analyses[:limit]: a negative limit counts from the end
SliceTo(analyses, limit) ==
  IF limit >= 0 THEN Take(analyses, limit)
  ELSE SubSeq(analyses, 1, Len(analyses) + limit)

Summary(a) ==
  AnalysisStatus(a.analysis_id, a.status, a.created_at, a.completed_at, a.error)

ListResult(limit, status) ==
  LET all == StoreValues(nextId - 1)
      filtered == IF TruthyStr(status) THEN FilterStatus(all, status[1]) ELSE all
      shown == SliceTo(SortNewestFirst(filtered), limit)
  IN  [i \in 1..Len(shown) |-> Summary(shown[i])]

Limits == -1..MaxLimit
StatusFilters == {Nothing, Some(""), Some("queued"), Some("completed"), Some("failed")}

\* what ListAnalyses was asked, kept with its response
ListQuery(limit, status) ==
  [limit |-> limit, status |-> status]

ListAnalyses(limit, status) ==
  /\ Idle
  /\ resp' = [op |-> "ListAnalyses", id |-> 0, code |-> 200, detail |-> "",
              body |-> ListResult(limit, status), query |-> ListQuery(limit, status)]
  /\ UNCHANGED <<analysis_store, nextId, background, running, escaped, trail,
                 clock, hashseed, engine>>

\* the response of the handler that just ran is sent (the return of every
\* handler); the loop then takes the next request or background task
Deliver ==
  /\ resp # NoResponse
  /\ resp' = NoResponse
  /\ UNCHANGED <<analysis_store, nextId, background, running, escaped, trail,
                 clock, hashseed, engine>>

\* the steps that change the store, and the sending of a response
StoreStep ==
  \/ \E request \in Requests, now \in NowTicks : CreateAnalysis(request, now)
  \/ \E task \in BagToSet(background) : PerformStart(task)
  \/ \E clientFails \in BOOLEAN, payload \in JobPayloads,
        now1 \in NowTicks, now2 \in Ticks :
       now1 <= now2 /\ PerformFinish(clientFails, payload, now1, now2)
  \/ \E analysis_id \in Ids : DeleteAnalysis(analysis_id)
  \/ Deliver

\* the job lifecycle with its readers GetStatus and GetResult
Next ==
  \/ StoreStep
  \/ \E analysis_id \in Ids : GetStatus(analysis_id)
  \/ \E analysis_id \in Ids : GetResult(analysis_id)

Spec == Init /\ [][Next]_vars

(***************************************************************************)
(* Scheduling.  The event loop serves its ready callbacks in turn: a       *)
(* response that was produced is sent, a background task added at line 164 *)
(* is started after its response even when handlers keep arriving, and a   *)
(* perform_analysis call that started runs to its end (lines 105-125 hold  *)
(* no await and, without a provider call, nothing that can block).         *)
(***************************************************************************)
Tasks == {Task(analysis_id, request) : analysis_id \in Ids, request \in Requests}

Fairness ==
  /\ WF_vars(Deliver)
  /\ \A task \in Tasks : SF_vars(PerformStart(task))
  /\ WF_vars(\E clientFails \in BOOLEAN, payload \in JobPayloads,
                now1 \in NowTicks, now2 \in Ticks :
               now1 <= now2 /\ PerformFinish(clientFails, payload, now1, now2))

SpecFair == Init /\ [][Next]_vars /\ Fairness

\* the job lifecycle with ListAnalyses
NextList ==
  \/ StoreStep
  \/ \E limit \in Limits, status \in StatusFilters : ListAnalyses(limit, status)

SpecList == Init /\ [][NextList]_vars

\* the job lifecycle with the three readers; ListAnalyses with the
\* smallest and the largest limit, unfiltered and filtered
NextRead ==
  \/ StoreStep
  \/ \E analysis_id \in Ids : GetStatus(analysis_id)
  \/ \E analysis_id \in Ids : GetResult(analysis_id)
  \/ \E limit \in {-1, MaxLimit}, status \in {Nothing, Some("completed")} :
       ListAnalyses(limit, status)

SpecRead == Init /\ [][NextRead]_vars

\* the job lifecycle with AnalyzeSync
NextSync ==
  \/ StoreStep
  \/ \E request \in Requests, clientFails \in BOOLEAN, payload \in JobPayloads,
        now \in NowTicks :
       AnalyzeSync(request, clientFails, payload, now)

SpecSync == Init /\ [][NextSync]_vars


(***************************************************************************)
(* One ScenarioAnalyzer.analyze call, stage by stage (scenario_analyzer.py *)
(* lines 78-109).  engine.pc is the position in analyze:                   *)
(*   "start"      analyze was called                                       *)
(*   "extracted"  line 91 returned the context factors                     *)
(*   "replied"    the provider call of lines 165-169 has ended             *)
(*   "generated"  line 94 returned the outcomes                            *)
(*   "identified" line 97 returned the key variables                       *)
(*   "advised"    line 100 returned the recommendations                    *)
(*   "done"       analyze returned the ScenarioAnalysis                    *)
(*   "raised"     an exception left analyze                                *)
(* calls counts the provider calls; strategy tells where the outcomes came *)
(* from: "ai", "rule" (no client) or "fallback" (lines 175-177).           *)
(***************************************************************************)
EngineSituations ==
  { "Team decision", "Launch a startup", "Go", "Tech startups, MARKET!",
    "Company resource deadline" }
EngineContexts ==
  { Nothing, Some(<<>>), Some(<< <<"industry", "Technology">> >>),
    Some(<< <<"stage", "seed">>, <<"budget", "low">> >>) }

\* what the provider can answer to one call
EnginePayloads ==
  { Payload("error", <<>>),
    Payload("notjson", <<>>),
    Payload("scalar", <<>>),
    Payload("items", <<>>),
    Payload("items", <<Elem("exact", InRange)>>),
    Payload("items", <<Elem("exact", OutOfRange)>>),
    Payload("items", <<Elem("exact", IllTyped)>>),
    Payload("items", <<Elem("exact", InRange), Elem("missing", InRange)>>),
    Payload("items", <<Elem("exact", InRange), Elem("exact", OutOfRange)>>),
    Payload("items", <<Elem("exact", Borderline)>>),
    Payload("items", <<Elem("exact", Borderline), Elem("exact", InRange)>>) }

\* the api keys and model names an analyzer is built with
EngineKeys == {Nothing, Some(""), Some("sk-1")}
EngineModels == {"gpt-4", "gpt-3.5-turbo"}

\* variant of HasClient that takes every key that is not None
HasClientUnlessNone(api_key) == Len(api_key) = 1

\* __init__ (lines 74-76): self.client is set iff the api_key is truthy
HasClient(api_key) == TruthyStr(api_key)

\* analyze is called on ScenarioAnalyzer(api_key, model); api_key is kept
\* as the key the analyzer was built with
EngineStart(api_key, model, situation, context) ==
  [pc |-> "start", api_key |-> api_key, model |-> model,
   client |-> HasClient(api_key), situation |-> situation, context |-> context,
   calls |-> 0, payload |-> Nothing, strategy |-> "", context_factors |-> <<>>,
   outcomes |-> <<>>, key_variables |-> <<>>, recommendations |-> <<>>,
   result |-> Nothing, exc |-> ""]

InitEngine ==
  /\ analysis_store = <<>>
  /\ nextId = 1
  /\ background = EmptyBag
  /\ running = Nothing
  /\ escaped = {}
  /\ trail = [i \in Ids |-> <<>>]
  /\ clock = 0
  /\ hashseed \in Seeds
  /\ resp = NoResponse
  /\ engine \in {EngineStart(api_key, model, situation, context) :
                   api_key \in EngineKeys, model \in EngineModels,
                   situation \in EngineSituations, context \in EngineContexts}

EngineOnly ==
  UNCHANGED <<analysis_store, nextId, background, running, escaped, trail,
              clock, hashseed, resp>>

\* line 91
EngineExtract ==
  /\ engine.pc = "start"
  /\ engine' = [engine EXCEPT
                  !.pc = "extracted",
                  !.context_factors =
                     ExtractContextFactors(engine.situation, engine.context)]
  /\ EngineOnly

\* lines 136-140 without a client: the rule-based outcomes
EngineRuleBased ==
  /\ engine.pc = "extracted"
  /\ ~engine.client
  /\ engine' = [engine EXCEPT
                  !.pc = "generated", !.strategy = "rule",
                  !.outcomes = GenerateOutcomes(FALSE, engine.situation,
                                                engine.context_factors, Nothing)]
  /\ EngineOnly

\* lines 136-137 and 165-169 with a client: the one provider call
EngineAskProvider(payload) ==
  /\ engine.pc = "extracted"
  /\ engine.client
  /\ engine' = [engine EXCEPT
                  !.pc = "replied", !.calls = @ + 1, !.payload = Some(payload)]
  /\ EngineOnly

\* variant of EngineParse that asks the provider again when the payload is
\* rejected
EngineParseRetry ==
  /\ engine.pc = "replied"
  /\ engine' =
       IF AiAccepts(engine.payload[1])
       THEN [engine EXCEPT
               !.pc = "generated", !.strategy = "ai",
               !.outcomes = GenerateOutcomes(TRUE, engine.situation,
                                             engine.context_factors,
                                             engine.payload[1])]
       ELSE [engine EXCEPT !.pc = "extracted"]
  /\ EngineOnly

\* lines 171-177: the payload becomes the outcomes, or the except branch
\* returns the rule-based outcomes
EngineParse ==
  /\ engine.pc = "replied"
  /\ engine' = [engine EXCEPT
                  !.pc = "generated",
                  !.outcomes = GenerateOutcomes(TRUE, engine.situation,
                                                engine.context_factors,
                                                engine.payload[1]),
                  !.strategy = IF AiAccepts(engine.payload[1]) THEN "ai"
                               ELSE "fallback"]
  /\ EngineOnly

EngineAfter(key, stage, got) ==
  IF got.ok
  THEN [engine EXCEPT !.pc = stage, ![key] = got.val]
  ELSE [engine EXCEPT !.pc = "raised", !.exc = got.exc]

\* line 97
EngineIdentify ==
  /\ engine.pc = "generated"
  /\ engine' = EngineAfter("key_variables", "identified",
                           IdentifyKeyVariables(engine.situation, engine.outcomes))
  /\ EngineOnly

\* line 100
EngineAdvise ==
  /\ engine.pc = "identified"
  /\ engine' = EngineAfter("recommendations", "advised",
                           GenerateRecommendations(engine.situation, engine.outcomes,
                                                   hashseed))
  /\ EngineOnly

\* lines 102-109
EngineReturn(now) ==
  /\ engine.pc = "advised"
  /\ engine' = [engine EXCEPT
                  !.pc = "done",
                  !.result = Some(ScenarioAnalysis(engine.situation,
                                    engine.context_factors, engine.outcomes,
                                    engine.key_variables, engine.recommendations,
                                    IsoFormat(now)))]
  /\ EngineOnly

NextEngine ==
  \/ EngineExtract
  \/ EngineRuleBased
  \/ \E payload \in EnginePayloads : EngineAskProvider(payload)
  \/ EngineParse
  \/ EngineIdentify
  \/ EngineAdvise
  \/ \E now \in Ticks : EngineReturn(now)

SpecEngine == InitEngine /\ [][NextEngine]_vars


(***************************************************************************)
(* Several analyze calls of analyzers without a client, interleaved stage  *)
(* by stage (scenario_analyzer.py lines 78-109).  analyze and the methods  *)
(* it calls assign no attribute of self and no module-level name: a call   *)
(* reads its arguments, its locals and, in list(set(...)), the string hash *)
(* seed of the process it runs in.  Calls may run in one process or in     *)
(* several (server restarts, worker processes, the command line); seed is  *)
(* the hash seed of the call's process.  In this specification engine maps *)
(* each caller to its call.                                                *)
(***************************************************************************)
Callers == {"a", "b", "c"}
CallSituations == {"Team decision", "Go"}
CallContexts == {Nothing, Some(<< <<"industry", "Technology">> >>)}

CallStart(situation, context, seed) ==
  [pc |-> "start", situation |-> situation, context |-> context, seed |-> seed,
   context_factors |-> <<>>, outcomes |-> <<>>, key_variables |-> <<>>,
   recommendations |-> <<>>, result |-> Nothing]

InitCalls ==
  /\ analysis_store = <<>>
  /\ nextId = 1
  /\ background = EmptyBag
  /\ running = Nothing
  /\ escaped = {}
  /\ trail = [i \in Ids |-> <<>>]
  /\ clock = 0
  /\ hashseed = 0
  /\ resp = NoResponse
  /\ engine \in [Callers -> {CallStart(situation, context, seed) :
                                situation \in CallSituations,
                                context \in CallContexts, seed \in Seeds}]

\* what lines 91, 94, 97 and 100 compute in a call without a client
CallLocals(situation, context, seed) ==
  LET context_factors == ExtractContextFactors(situation, context)
      outcomes == GenerateOutcomes(FALSE, situation, context_factors, Nothing)
  IN  [context_factors |-> context_factors,
       outcomes |-> outcomes,
       key_variables |-> IdentifyKeyVariables(situation, outcomes).val,
       recommendations |-> GenerateRecommendations(situation, outcomes, seed).val]

\* CallLocals tabulated once over the inputs the calls draw
RECURSIVE TabulateLocals(_)
TabulateLocals(inputs) ==
  IF inputs = {} THEN <<>>
  ELSE LET x == CHOOSE x \in inputs : TRUE
       IN  (x :> CallLocals(x[1], x[2], x[3])) @@ TabulateLocals(inputs \ {x})

LocalsTable == TabulateLocals(CallSituations \X CallContexts \X Seeds)

LocalsOf(c) == LocalsTable[<<c.situation, c.context, c.seed>>]

\* variant of CallStage with a cache of context factors shared by the
\* calls: line 91 takes the factors another call has extracted
CallStageCached(caller, c, now) ==
  CASE c.pc = "start" ->
         [c EXCEPT !.pc = "extracted",
                   !.context_factors =
                      IF \E other \in Callers : engine[other].pc # "start"
                      THEN engine[CHOOSE other \in Callers :
                                    engine[other].pc # "start"].context_factors
                      ELSE LocalsOf(c).context_factors]
    [] c.pc = "extracted" ->
         [c EXCEPT !.pc = "generated", !.outcomes = LocalsOf(c).outcomes]
    [] c.pc = "generated" ->
         [c EXCEPT !.pc = "identified", !.key_variables = LocalsOf(c).key_variables]
    [] c.pc = "identified" ->
         [c EXCEPT !.pc = "advised", !.recommendations = LocalsOf(c).recommendations]
    [] c.pc = "advised" ->
         [c EXCEPT !.pc = "done",
                   !.result = Some(ScenarioAnalysis(c.situation, c.context_factors,
                                     c.outcomes, c.key_variables,
                                     c.recommendations, IsoFormat(now)))]

\* the next stage of the call c of caller: lines 91, 94, 97, 100, 102-109
CallStage(caller, c, now) ==
  CASE c.pc = "start" ->
         [c EXCEPT !.pc = "extracted",
                   !.context_factors = LocalsOf(c).context_factors]
    [] c.pc = "extracted" ->
         [c EXCEPT !.pc = "generated", !.outcomes = LocalsOf(c).outcomes]
    [] c.pc = "generated" ->
         [c EXCEPT !.pc = "identified", !.key_variables = LocalsOf(c).key_variables]
    [] c.pc = "identified" ->
         [c EXCEPT !.pc = "advised", !.recommendations = LocalsOf(c).recommendations]
    [] c.pc = "advised" ->
         [c EXCEPT !.pc = "done",
                   !.result = Some(ScenarioAnalysis(c.situation, c.context_factors,
                                     c.outcomes, c.key_variables,
                                     c.recommendations, IsoFormat(now)))]

\* one call advances by one stage while the others stay where they are
CallStep(caller, now) ==
  /\ engine[caller].pc # "done"
  /\ engine' = [engine EXCEPT ![caller] = CallStage(caller, engine[caller], now)]
  /\ UNCHANGED <<analysis_store, nextId, background, running, escaped, trail,
                 clock, hashseed, resp>>

NextCalls == \E caller \in Callers, now \in Ticks : CallStep(caller, now)

SpecCalls == InitCalls /\ [][NextCalls]_vars


(***************************************************************************)
(* Properties of the job lifecycle (Spec).                                 *)
(***************************************************************************)
StatusPaths ==
  { <<"queued", "processing", "completed">>, <<"queued", "processing", "failed">> }

IsPrefix(s, t) == Len(s) <= Len(t) /\ s = SubSeq(t, 1, Len(s))

Last(s) == s[Len(s)]

Terminal(status) == status \in {"completed", "failed"}

C2_RecordInvariant ==
  /\ \A id \in DOMAIN analysis_store :
       LET r == analysis_store[id]
       IN  /\ (r.status = "completed") <=> ~IsNone(r.analysis)
           /\ (r.status = "failed") <=> ~IsNone(r.error)
           /\ Terminal(r.status) <=> (IsNone(r.analysis) # IsNone(r.error))
           /\ Terminal(r.status) <=> ~IsNone(r.completed_at)
  /\ (resp.op = "GetStatus" /\ resp.code = 200)
       => LET b == resp.body[1]
          IN  /\ Terminal(b.status) <=> ~IsNone(b.completed_at)
              /\ (b.status = "failed") <=> ~IsNone(b.error)

\* the store holds a completed and a failed record, both stamped
C2_Witness ==
  \E i, j \in DOMAIN analysis_store :
    /\ analysis_store[i].status = "completed"
    /\ ~IsNone(analysis_store[i].analysis)
    /\ analysis_store[j].status = "failed"
    /\ ~IsNone(analysis_store[j].error)
    /\ ~IsNone(analysis_store[j].completed_at)

\* C3: no perform_analysis call ends by an exception: whatever fails while
\* a job runs, with the job deleted meanwhile or not, is stored in the
\* record and nothing is raised into the scheduler.
C3_FailuresCaptured == escaped = {}

\* C4: GetResult answers 404 when the id is not in the store; 400 with the
\* record's status in the detail when the record is queued, processing or
\* failed; and the stored analysis only when the record is completed.
C4_GetResult ==
  resp.op = "GetResult" =>
    /\ (resp.id \notin DOMAIN analysis_store)
         <=> (resp.code = 404 /\ resp.detail = "Analysis not found")
    /\ (resp.id \in DOMAIN analysis_store) =>
         LET r == analysis_store[resp.id]
         IN  /\ r.status \in {"queued", "processing", "failed"}
                  <=> /\ resp.code = 400
                      /\ resp.detail = "Analysis not completed. Status: " \o r.status
             /\ resp.code = 200 =>
                  /\ r.status = "completed"
                  /\ resp.body[1].analysis_id = resp.id
                  /\ resp.body[1].outcomes = r.analysis[1].outcomes
                  /\ resp.body[1].recommendations = r.analysis[1].recommendations
                  /\ resp.body[1].key_variables = r.analysis[1].key_variables

\* GetResult was refused for a failed job, naming its status
C4_Witness ==
  /\ resp.op = "GetResult"
  /\ resp.code = 400
  /\ resp.id \in DOMAIN analysis_store
  /\ analysis_store[resp.id].status = "failed"
  /\ resp.detail = "Analysis not completed. Status: failed"

\* C5: DeleteAnalysis of a stored id answers 200 and removes that record
\* and no other; of an absent id it answers 404 and leaves the store as it
\* was; GetStatus and GetResult of an id that is not stored answer 404.
C5_Delete ==
  [][ /\ (resp.op = "none" /\ resp'.op = "DeleteAnalysis") =>
           IF resp'.id \in DOMAIN analysis_store
           THEN /\ resp'.code = 200
                /\ DOMAIN analysis_store' = DOMAIN analysis_store \ {resp'.id}
                /\ \A j \in DOMAIN analysis_store' :
                     analysis_store'[j] = analysis_store[j]
           ELSE /\ resp'.code = 404
                /\ analysis_store' = analysis_store
      /\ (resp'.op \in {"GetStatus", "GetResult"}
            /\ resp'.id \notin DOMAIN analysis_store')
           => resp'.code = 404
    ]_vars

\* a job that had completed was deleted, and GetStatus of it answers 404
C5_Witness ==
  /\ resp.op = "GetStatus"
  /\ resp.code = 404
  /\ resp.id \notin DOMAIN analysis_store
  /\ trail[resp.id] = <<"queued", "processing", "completed">>

\* C7: CreateAnalysis answers 200 with status queued, adds one record under
\* an id that was not stored, with status queued, created_at set, the
\* request kept and analysis, error and completed_at None, changes no other
\* record, and adds exactly one background task, which is for that id.
C7_Create ==
  [][ (resp.op = "none" /\ resp'.op = "CreateAnalysis") =>
        LET id == resp'.id
            new == analysis_store'[id]
        IN  /\ resp'.code = 200
            /\ resp'.body[1].status = "queued"
            /\ resp'.body[1].analysis_id = id
            /\ id \notin DOMAIN analysis_store
            /\ DOMAIN analysis_store' = DOMAIN analysis_store \cup {id}
            /\ \A j \in DOMAIN analysis_store : analysis_store'[j] = analysis_store[j]
            /\ new.status = "queued"
            /\ new.created_at \in Timestamps
            /\ new.created_at = resp'.body[1].created_at
            /\ new.request \in Requests
            /\ IsNone(new.analysis) /\ IsNone(new.error) /\ IsNone(new.completed_at)
            /\ BagCardinality(background') = BagCardinality(background) + 1
            /\ CopiesIn(Task(id, new.request), background') = 1
            /\ \A t \in BagToSet(background') :
                 t.analysis_id = id => t = Task(id, new.request)
    ]_vars

\* a second job was created after the first one had been deleted
C7_Witness ==
  /\ resp.op = "CreateAnalysis"
  /\ resp.id = 2
  /\ DOMAIN analysis_store = {2}
  /\ analysis_store[2].status = "queued"
  /\ BagCardinality(background) = 2

(***************************************************************************)
(* Properties of ListAnalyses (SpecList).                                  *)
(***************************************************************************)
\* the stored ids a query asks for: every id without a filter, else the ids
\* of the records whose status is the filter
Matching(query) ==
  {id \in DOMAIN analysis_store :
     IsNone(query.status) \/ analysis_store[id].status = query.status[1]}

Listed(body) == {body[i].analysis_id : i \in 1..Len(body)}

\* C6: ListAnalyses returns at most limit summaries, each the summary of a
\* stored record that matches the filter and none twice, in non-increasing
\* created_at order; a matching record is left out only when limit
\* summaries are returned, none of them older than it.
C6_List ==
  resp.op = "ListAnalyses" =>
    LET body == resp.body
        want == Matching(resp.query)
    IN  /\ Len(body) <= resp.query.limit
        /\ \A i \in 1..Len(body) :
             /\ body[i].analysis_id \in want
             /\ body[i] = Summary(analysis_store[body[i].analysis_id])
        /\ \A i, j \in 1..Len(body) :
             i < j => /\ body[i].analysis_id # body[j].analysis_id
                      /\ ~CreatedLess(body[i], body[j])
        /\ \A id \in want \ Listed(body) :
             /\ Len(body) = resp.query.limit
             /\ \A i \in 1..Len(body) : ~CreatedLess(body[i], analysis_store[id])

\* C6 for the queries the code serves as stated: a limit of 0 or more and
\* a filter that is absent or not the empty string
C6_ListOfValidQuery ==
  (/\ resp.op = "ListAnalyses"
   /\ resp.query.limit >= 0
   /\ resp.query.status # Some("")) => C6_List

(***************************************************************************)
(* Properties of AnalyzeSync (SpecSync).                                   *)
(***************************************************************************)
\* C8: a step of AnalyzeSync, answering 200 or 500, leaves the store and
\* the scheduled background tasks as they were.
C8_SyncLeavesStore ==
  [][ (resp.op = "none" /\ resp'.op = "AnalyzeSync") =>
        /\ analysis_store' = analysis_store
        /\ background' = background
    ]_vars

\* AnalyzeSync returned an analysis while a job was stored
C8_Witness ==
  /\ resp.op = "AnalyzeSync"
  /\ resp.code = 200
  /\ \E id \in DOMAIN analysis_store : analysis_store[id].status = "queued"

(***************************************************************************)
(* Properties of analyze (SpecEngine).                                     *)
(***************************************************************************)
Generated == engine.pc \in {"generated", "identified", "advised", "done", "raised"}

StartsWith(s, prefix) ==
  Len(s) >= Len(prefix) /\ SubSeq(s, 1, Len(prefix)) = prefix

\* C9: whenever the outcomes come from the rule-based generation, they are
\* four, in the order optimal, expected, difficult, adverse, with
\* probabilities 0.25, 0.45, 0.25, 0.05 that sum to 1, impact levels High,
\* Medium, Medium, High and confidence scores 0.70, 0.85, 0.75, 0.60.
C9_RuleBased ==
  (Generated /\ engine.strategy \in {"rule", "fallback"}) =>
    LET o == engine.outcomes
    IN  /\ Len(o) = 4
        /\ StartsWith(o[1].description.s, "Optimal")
        /\ StartsWith(o[2].description.s, "Expected")
        /\ StartsWith(o[3].description.s, "Difficult")
        /\ StartsWith(o[4].description.s, "Adverse")
        /\ [i \in 1..4 |-> o[i].probability] = <<JNum(25), JNum(45), JNum(25), JNum(5)>>
        /\ o[1].probability.n + o[2].probability.n + o[3].probability.n
             + o[4].probability.n = 100
        /\ [i \in 1..4 |-> o[i].impact_level.s] = <<"High", "Medium", "Medium", "High">>
        /\ [i \in 1..4 |-> o[i].confidence_score] =
             <<JNum(70), JNum(85), JNum(75), JNum(60)>>

\* the rule-based outcomes were generated for a situation that matches no
\* category, without a client
C9_Witness ==
  /\ engine.pc = "done"
  /\ engine.strategy = "rule"
  /\ engine.situation = "Go"
  /\ engine.context_factors = <<"General situational context">>
  /\ Len(engine.outcomes) = 4

\* C10: every outcome of an analysis that analyze returned has a
\* probability and a confidence score from 0 to 1.
C10_ScoresInRange ==
  engine.pc = "done" =>
    \A i \in 1..Len(engine.result[1].outcomes) :
      LET o == engine.result[1].outcomes[i]
      IN  /\ o.probability.t = "num"
          /\ 0 <= o.probability.n /\ o.probability.n <= 100
          /\ o.confidence_score.t = "num"
          /\ 0 <= o.confidence_score.n /\ o.confidence_score.n <= 100

\* C11: with a client, analyze returns an analysis whatever the provider
\* did: no exception leaves analyze.
C11_AnalyzeAlwaysReturns == engine.client => engine.pc # "raised"


Advised == engine.pc \in {"advised", "done"}

\* C12: whenever the recommendations were generated, for rule-based, AI and
\* empty outcome sets alike, they have at least two entries and the last
\* two are "Monitor key variables closely" and "Maintain flexibility for
\* scenario pivots", in this order.
C12_Closers ==
  Advised =>
    LET r == engine.recommendations
    IN  /\ Len(r) >= 2
        /\ r[Len(r) - 1] = "Monitor key variables closely"
        /\ r[Len(r)] = "Maintain flexibility for scenario pivots"

\* the provider returned an empty array: no outcome, and the
\* recommendations are the two closers alone
C12_Witness ==
  /\ Advised
  /\ engine.strategy = "ai"
  /\ engine.outcomes = <<>>
  /\ engine.recommendations =
       <<"Monitor key variables closely", "Maintain flexibility for scenario pivots">>


Extracted == engine.pc \notin {"off", "start"}

\* the words of a text: its maximal runs of word characters
WordsOf(s) ==
  { SubSeq(s, i, j) : <<i, j>> \in
      { <<i, j>> \in (1..Len(s)) \X (1..Len(s)) :
          /\ i <= j
          /\ \A k \in i..j : IsWordChar(CharAt(s, k))
          /\ (i = 1 \/ ~IsWordChar(CharAt(s, i - 1)))
          /\ (j = Len(s) \/ ~IsWordChar(CharAt(s, j + 1))) } }

\* the five categories in their order, each with its keywords
Categories ==
  << [name |-> "Business/Commercial context", kws |-> {"business", "company", "startup"}],
     [name |-> "Economic factors", kws |-> {"market", "economy", "financial"}],
     [name |-> "Human resources", kws |-> {"team", "people", "employee"}],
     [name |-> "Technology factors", kws |-> {"technology", "tech", "digital"}],
     [name |-> "Time constraints", kws |-> {"time", "deadline", "urgent"}] >>

CategoryMatches(category) ==
  category.kws \cap WordsOf(Lower(engine.situation)) # {}

ContextEntries ==
  IF IsNone(engine.context) THEN <<>> ELSE engine.context[1]

\* C13: the context factors are one factor per category with a keyword
\* among the words of the lower-cased situation, in the order business,
\* economic, human resources, technology, time, followed by "key: value"
\* per context entry in order; the single default factor is returned iff
\* no category matches and the context has no entry.
C13_ContextFactors ==
  Extracted =>
    LET matched == SelectSeq(Categories, CategoryMatches)
        expected ==
          [i \in 1..Len(matched) |-> matched[i].name]
          \o [i \in 1..Len(ContextEntries) |->
                ContextEntries[i][1] \o ": " \o ContextEntries[i][2]]
    IN  /\ expected # <<>> => engine.context_factors = expected
        /\ (engine.context_factors = <<"General situational context">>)
             <=> expected = <<>>

\* "tech" and "market" are words of the situation and "startup" is not: the
\* economic factor precedes the technology factor, then the two context
\* entries follow in order
C13_Witness ==
  /\ Extracted
  /\ engine.situation = "Tech startups, MARKET!"
  /\ engine.context_factors =
       <<"Economic factors", "Technology factors", "stage: seed", "budget: low">>


(***************************************************************************)
(* Properties of the scheduling of perform_analysis (Spec).                *)
(***************************************************************************)
\* C14: while the analysis of one job is in progress the other handlers
\* can still take steps: GetStatus of the running job can be served, and
\* CreateAnalysis can be served while ids are left.
C14_HandlersRunDuringAnalysis ==
  ~IsNone(running) =>
    /\ ENABLED GetStatus(running[1].analysis_id)
    /\ nextId <= MaxJobs =>
         ENABLED (\E request \in Requests, now \in NowTicks :
                    CreateAnalysis(request, now))

\* no reader is ever answered with status processing: GetStatus and
\* GetResult run only while no perform_analysis call holds the event loop
C14_ProcessingNeverObserved ==
  /\ (resp.op = "GetStatus" /\ resp.code = 200) => resp.body[1].status # "processing"
  /\ (resp.op = "GetResult" /\ resp.code = 400)
       => resp.detail # "Analysis not completed. Status: processing"


\* C15: as long as the analyze call of a job has not returned, its record
\* is stored with status processing; and a record with status processing
\* is changed or removed only by the end of its own perform_analysis call
\* or by DeleteAnalysis of its id: nothing times it out or fails it.
C15_StaysProcessing ==
  [][ /\ ~IsNone(running') =>
           /\ running'[1].analysis_id \in DOMAIN analysis_store'
           /\ analysis_store'[running'[1].analysis_id].status = "processing"
      /\ \A id \in DOMAIN analysis_store :
           analysis_store[id].status = "processing" =>
             \/ (id \in DOMAIN analysis_store'
                   /\ analysis_store'[id] = analysis_store[id])
             \/ (/\ ~IsNone(running)
                 /\ running[1].analysis_id = id
                 /\ IsNone(running'))
             \/ (resp'.op = "DeleteAnalysis" /\ resp'.id = id)
    ]_vars

\* the analyze call of a job with credentials is in progress and its
\* record has status processing
C15_Witness ==
  /\ ~IsNone(running)
  /\ TruthyStr(running[1].request.api_key)
  /\ analysis_store[running[1].analysis_id].status = "processing"
  /\ IsNone(analysis_store[running[1].analysis_id].completed_at)


(***************************************************************************)
(* Properties of the readers (SpecRead).                                   *)
(***************************************************************************)
Readers == {"GetStatus", "GetResult", "ListAnalyses"}

\* C16: a step of GetStatus, GetResult or ListAnalyses, whatever it
\* answers, leaves the store as it was: the same ids with the same records.
C16_ReadersLeaveStore ==
  [][ (resp.op = "none" /\ resp'.op \in Readers) =>
        /\ DOMAIN analysis_store' = DOMAIN analysis_store
        /\ \A id \in DOMAIN analysis_store : analysis_store'[id] = analysis_store[id]
    ]_vars

\* ListAnalyses answered with two summaries, newest first, and both
\* records are still stored
C16_Witness ==
  /\ resp.op = "ListAnalyses"
  /\ Len(resp.body) = 2
  /\ DOMAIN analysis_store = {1, 2}
  /\ resp.body[1].analysis_id = 2
  /\ analysis_store[2].created_at # analysis_store[1].created_at


(***************************************************************************)
(* Properties of the outcome generation inside analyze (SpecEngine).       *)
(***************************************************************************)
\* the positions of analyze in the order the code passes them
StageRank ==
  [pc \in {"start", "extracted", "replied", "generated", "identified",
           "advised", "done", "raised"} |->
     CASE pc = "start" -> 0
       [] pc = "extracted" -> 1
       [] pc = "replied" -> 2
       [] pc = "generated" -> 3
       [] pc = "identified" -> 4
       [] pc = "advised" -> 5
       [] OTHER -> 6]

\* C17: the outcome generation of one analyze call only moves forward:
\* with a client, extracted -> replied (the one provider call) -> generated,
\* from the payload or, after a failure, from the rule-based fallback; the
\* provider is called at most once, and not at all after the reply.
C17_SingleAttempt ==
  [][ /\ StageRank[engine'.pc] > StageRank[engine.pc]
      /\ engine'.calls <= 1
      /\ engine'.calls >= engine.calls
      /\ StageRank[engine.pc] >= 2 => engine'.calls = engine.calls
      /\ engine'.pc = "replied" => (engine.pc = "extracted" /\ engine.client)
      /\ (engine.pc = "replied") =>
           /\ engine'.pc = "generated"
           /\ engine'.strategy = (IF AiAccepts(engine.payload[1]) THEN "ai"
                                  ELSE "fallback")
      /\ (engine'.pc = "generated" /\ engine'.strategy = "fallback") =>
           engine'.outcomes = RuleBasedOutcomes(engine.situation, engine.context_factors)
    ]_vars

\* the provider call failed, the rule-based fallback produced the outcomes
\* and analyze returned, after one provider call
C17_Witness ==
  /\ engine.pc = "done"
  /\ engine.payload = Some(Payload("error", <<>>))
  /\ engine.strategy = "fallback"
  /\ engine.calls = 1
  /\ Len(engine.outcomes) = 4


CanonicalFour == <<OptimalOutcome, ExpectedOutcome, DifficultOutcome, AdverseOutcome>>

\* C18: an analyzer built without a key (None or the empty string) never
\* calls the provider and generates the canonical four outcomes, whatever
\* its model; an analyzer built with a key calls the provider before any
\* outcome is generated, and its outcomes are the payload's or the fallback.
C18_StrategyByCredentials ==
  /\ engine.api_key \in {Nothing, Some("")} =>
       /\ engine.calls = 0
       /\ Generated => (engine.strategy = "rule" /\ engine.outcomes = CanonicalFour)
  /\ engine.api_key \notin {Nothing, Some("")} =>
       /\ Generated => (engine.calls = 1 /\ engine.strategy \in {"ai", "fallback"})
       /\ ~Generated => engine.outcomes = <<>>

\* an analyzer built with the empty key and another model returned the
\* canonical four without a provider call
C18_Witness ==
  /\ engine.pc = "done"
  /\ engine.api_key = Some("")
  /\ engine.model = "gpt-3.5-turbo"
  /\ engine.calls = 0
  /\ engine.result[1].outcomes = CanonicalFour


\* the values of a list-valued field over all outcomes
FieldValues(outcomes, field) ==
  UNION { { outcomes[i][field].l[j].s : j \in 1..Len(outcomes[i][field].l) } :
            i \in 1..Len(outcomes) }

Min(a, b) == IF a < b THEN a ELSE b

\* C19: whenever the recommendations were generated they are, in order: a
\* "Prepare primarily for" entry iff some outcome has probability above
\* 0.3, naming the first such outcome; exactly min(3, number of distinct
\* risk factors) "Mitigate risk" entries, pairwise distinct, each naming a
\* risk factor of some outcome; at most 2 "Leverage opportunity" entries,
\* pairwise distinct, each naming an opportunity of some outcome; the two
\* closers.  The canonical four outcomes give 8 entries, the first naming
\* the expected outcome.
C19_Layout ==
  Advised =>
    LET recs == engine.recommendations
        outs == engine.outcomes
        high == {i \in 1..Len(outs) : outs[i].probability.n > 30}
        p == IF high = {} THEN 0 ELSE 1
        risks == FieldValues(outs, "risk_factors")
        opps == FieldValues(outs, "opportunities")
        m == Min(3, Cardinality(risks))
        n == Len(recs) - p - m - 2
    IN  /\ n \in 0..2
        /\ p = 1 =>
             LET first == CHOOSE i \in high : \A j \in high : i <= j
             IN  recs[1] = "Prepare primarily for: " \o outs[first].description.s
        /\ \A i \in 1..Len(recs) :
             StartsWith(recs[i], "Prepare primarily for") <=> (p = 1 /\ i = 1)
        /\ \A i \in (p + 1)..(p + m) :
             /\ \E r \in risks : recs[i] = "Mitigate risk: " \o r
             /\ \A j \in (p + 1)..(p + m) : recs[i] = recs[j] => i = j
        /\ \A i \in (p + m + 1)..(p + m + n) :
             /\ \E o \in opps : recs[i] = "Leverage opportunity: " \o o
             /\ \A j \in (p + m + 1)..(p + m + n) : recs[i] = recs[j] => i = j
        /\ SubSeq(recs, Len(recs) - 1, Len(recs)) = GeneralAdvice
        /\ outs = CanonicalFour =>
             /\ Len(recs) = 8
             /\ recs[1] = "Prepare primarily for: Expected outcome - moderate success with some challenges"

\* the canonical four outcomes were advised on: 8 entries, the first on the
\* expected outcome, three on risks and two on opportunities
C19_Witness ==
  /\ Advised
  /\ engine.outcomes = CanonicalFour
  /\ Len(engine.recommendations) = 8
  /\ StartsWith(engine.recommendations[1], "Prepare primarily for: Expected")
  /\ StartsWith(engine.recommendations[4], "Mitigate risk: ")
  /\ StartsWith(engine.recommendations[6], "Leverage opportunity: ")

\* an outcome of probability exactly 0.3 alone: no "Prepare" entry, its two
\* distinct risk factors, two of its three opportunities, and the closers
C19_BorderlineReached ==
  /\ Advised
  /\ engine.outcomes = <<Borderline>>
  /\ Len(engine.recommendations) = 6
  /\ StartsWith(engine.recommendations[1], "Mitigate risk: ")


Identified == engine.pc \in {"identified", "advised", "done"}

SituationScan ==
  << <<"decision", "Decision quality and timing">>,
     <<"resource", "Resource availability">>,
     <<"market", "Market conditions">>,
     <<"team", "Team performance and dynamics">> >>

RiskScan ==
  << <<"resource", "Resource management">>,
     <<"execution", "Execution capability">>,
     <<"external", "External environment">> >>

DefaultVariables == <<"Situational dynamics", "External factors">>

\* the names of a scan whose keyword is matched, in the scan's order
NamesOf(scan, Matched(_)) ==
  LET hit(entry) == Matched(entry[1])
      hits == SelectSeq(scan, hit)
  IN  [i \in 1..Len(hits) |-> hits[i][2]]

\* C20: whenever the key variables were identified, they are the variables
\* of the situation scan (decision, resource, market, team) whose keyword
\* occurs in the lower-cased situation, followed by the variables of the
\* risk scan (resource, execution, external) whose keyword occurs in some
\* lower-cased risk factor of some outcome; when both are empty, and only
\* then, they are "Situational dynamics", "External factors", which never
\* appear next to an identified variable.
C20_KeyVariables ==
  Identified =>
    LET kv == engine.key_variables
        risks == FieldValues(engine.outcomes, "risk_factors")
        inSituation(kw) == Contains(Lower(engine.situation), kw)
        inRisks(kw) == \E r \in risks : Contains(Lower(r), kw)
        found == NamesOf(SituationScan, inSituation) \o NamesOf(RiskScan, inRisks)
    IN  /\ found # <<>> => kv = found
        /\ found = <<>> => kv = DefaultVariables
        /\ kv = DefaultVariables <=> found = <<>>
        /\ found # <<>> =>
             \A i \in 1..Len(kv) : \A j \in 1..2 : kv[i] # DefaultVariables[j]

\* both scans found variables: two from the situation, in the scan's order
\* and not the text's, then the three of the canonical risk factors
C20_Witness ==
  /\ Identified
  /\ engine.situation = "Team decision"
  /\ engine.outcomes = CanonicalFour
  /\ engine.key_variables =
       <<"Decision quality and timing", "Team performance and dynamics",
         "Resource management", "Execution capability", "External environment">>

\* neither scan found a variable although the provider gave an outcome
C20_DefaultsReached ==
  /\ Identified
  /\ engine.situation = "Go"
  /\ Len(engine.outcomes) = 1
  /\ engine.key_variables = DefaultVariables


ImpactLevels == {"Low", "Medium", "High"}

\* an element of the payload has the Outcome shape
ValidShape(elem) ==
  /\ elem.keys = "exact"
  /\ elem.o.description.t = "str"
  /\ elem.o.probability.t = "num"
  /\ elem.o.confidence_score.t = "num"
  /\ elem.o.impact_level.t = "str"
  /\ elem.o.impact_level.s \in ImpactLevels
  /\ elem.o.risk_factors.t = "list"
  /\ \A i \in 1..Len(elem.o.risk_factors.l) : elem.o.risk_factors.l[i].t = "str"
  /\ elem.o.opportunities.t = "list"
  /\ \A i \in 1..Len(elem.o.opportunities.l) : elem.o.opportunities.l[i].t = "str"
  /\ elem.o.timeline.t = "str"

\* C21: once the outcomes of a call with a provider answer are generated,
\* a payload with an element that has not the Outcome shape (seven fields
\* and no others, numeric probability and confidence_score, impact_level
\* Low, Medium or High, lists of text) was rejected: the outcomes are the
\* canonical four of the fallback.
C21_FieldValidation ==
  (/\ Generated
   /\ engine.calls = 1
   /\ engine.payload[1].kind = "items"
   /\ \E i \in 1..Len(engine.payload[1].items) :
        ~ValidShape(engine.payload[1].items[i]))
  => (engine.strategy = "fallback" /\ engine.outcomes = CanonicalFour)


(***************************************************************************)
(* Properties of the job lifecycle under fair scheduling (SpecFair).       *)
(***************************************************************************)
WithoutCredentials(analysis_id) ==
  /\ analysis_id \in DOMAIN analysis_store
  /\ analysis_store[analysis_id].request.api_key \in {Nothing, Some("")}

CompletedWithResult(analysis_id) ==
  /\ analysis_id \in DOMAIN analysis_store
  /\ analysis_store[analysis_id].status = "completed"
  /\ ~IsNone(analysis_store[analysis_id].analysis)
  /\ ~IsNone(analysis_store[analysis_id].completed_at)

\* C22: under fair scheduling, a job created without credentials is never
\* failed, and it is eventually completed with its result and completed_at
\* set unless it is deleted.
C22_RuleBasedJobCompletes ==
  \A analysis_id \in Ids :
    /\ [](WithoutCredentials(analysis_id) =>
            analysis_store[analysis_id].status # "failed")
    /\ (WithoutCredentials(analysis_id) ~>
          (analysis_id \notin DOMAIN analysis_store \/ CompletedWithResult(analysis_id)))

\* a job without credentials went through its background task and is
\* completed
C22_Witness ==
  \E analysis_id \in Ids :
    /\ WithoutCredentials(analysis_id)
    /\ CompletedWithResult(analysis_id)
    /\ trail[analysis_id] = <<"queued", "processing", "completed">>


(***************************************************************************)
(* Frame properties of the job lifecycle (Spec).                           *)
(***************************************************************************)
\* the record of analysis_id is in the store before and after the step
Kept(analysis_id) ==
  analysis_id \in DOMAIN analysis_store /\ analysis_id \in DOMAIN analysis_store'

\* the step moved the record from queued to processing and wrote nothing else
ToProcessing(before, after) ==
  /\ before.status = "queued"
  /\ after = [before EXCEPT !.status = "processing"]

\* the step wrote the terminal update of a processing record: status,
\* completed_at, and the analysis or the error
TerminalUpdate(before, after) ==
  /\ before.status = "processing"
  /\ Terminal(after.status)
  /\ \A field \in {"analysis_id", "created_at", "request"} :
       after[field] = before[field]
  /\ after.status = "completed" => after.error = before.error
  /\ after.status = "failed" => after.analysis = before.analysis

\* C23: in every step, a record that stays in the store keeps its id, its
\* created_at and its request; a completed or failed record keeps all its
\* fields; and a record that changes does so by the transition from queued
\* to processing or by the terminal update of a processing record.
C23_RecordFrame ==
  [][\A analysis_id \in Ids :
       Kept(analysis_id) =>
         LET before == analysis_store[analysis_id]
             after == analysis_store'[analysis_id]
         IN  /\ after.analysis_id = before.analysis_id
             /\ after.created_at = before.created_at
             /\ after.request = before.request
             /\ Terminal(before.status) => after = before
             /\ after # before =>
                  (ToProcessing(before, after) \/ TerminalUpdate(before, after))]_vars

\* a completed record was read after its terminal update and still carries
\* the creation time and the request of its CreateAnalysis
C23_Witness ==
  \E analysis_id \in DOMAIN analysis_store :
    /\ analysis_store[analysis_id].status = "completed"
    /\ resp.op = "GetResult" /\ resp.id = analysis_id /\ resp.code = 200
    /\ analysis_store[analysis_id].request \in Requests
    /\ analysis_store[analysis_id].created_at # analysis_store[analysis_id].completed_at[1]


(***************************************************************************)
(* Properties of interleaved analyze calls (SpecCalls).                    *)
(***************************************************************************)
SetOf(seq) == {seq[i] : i \in 1..Len(seq)}

Returned(caller) == engine[caller].pc = "done"

SameInputs(a, b) ==
  /\ engine[a].situation = engine[b].situation
  /\ engine[a].context = engine[b].context

\* the four fields that no set iteration order enters
SameAnalysis(r, s) ==
  /\ r.situation = s.situation
  /\ r.context_factors = s.context_factors
  /\ r.outcomes = s.outcomes
  /\ r.key_variables = s.key_variables

RECURSIVE TabulateAlone(_)
TabulateAlone(inputs) ==
  IF inputs = {} THEN <<>>
  ELSE LET x == CHOOSE x \in inputs : TRUE
       IN  (x :> Analyze(FALSE, x[1], x[2], Nothing, x[3], 0).val)
           @@ TabulateAlone(inputs \ {x})

AloneTable == TabulateAlone(CallSituations \X CallContexts \X Seeds)

Alone(c) == AloneTable[<<c.situation, c.context, c.seed>>]

Created(analysis_id) == analysis_id < nextId

\* C25: in every step, a record leaves the store only by a successful
\* DeleteAnalysis of its id, a record enters the store only by the
\* CreateAnalysis that hands out its id, and the id of a deleted record
\* stays out of the store, also when the job's background task runs after
\* the deletion.
C25_StoredFromCreateToDelete ==
  [][\A analysis_id \in Ids :
       /\ (analysis_id \in DOMAIN analysis_store
           /\ analysis_id \notin DOMAIN analysis_store')
          => (resp'.op = "DeleteAnalysis" /\ resp'.id = analysis_id
              /\ resp'.code = 200 /\ resp = NoResponse)
       /\ (analysis_id \notin DOMAIN analysis_store
           /\ analysis_id \in DOMAIN analysis_store')
          => (~Created(analysis_id) /\ Created(analysis_id)'
              /\ resp'.op = "CreateAnalysis" /\ resp'.id = analysis_id)
       /\ (Created(analysis_id) /\ analysis_id \notin DOMAIN analysis_store)
          => analysis_id \notin DOMAIN analysis_store']_vars

\* the background task of a deleted job has run and the id is still out of
\* the store, while the other job's record is in it
C25_Witness ==
  \E analysis_id \in Ids :
    /\ Created(analysis_id)
    /\ analysis_id \notin DOMAIN analysis_store
    /\ analysis_id \in escaped
    /\ \A task \in BagToSet(background) : task.analysis_id # analysis_id
    /\ DOMAIN analysis_store # {}


\* C26: every record with status completed holds an analysis, and no
\* GetResult answers "Analysis data not available".
C26_CompletedHasResult ==
  /\ \A analysis_id \in DOMAIN analysis_store :
       analysis_store[analysis_id].status = "completed" =>
         ~IsNone(analysis_store[analysis_id].analysis)
  /\ resp.op = "GetResult" => resp.detail # "Analysis data not available"

\* GetResult was asked for a completed job whose record holds the analysis
\* of its own situation, and answered 200
C26_Witness ==
  \E analysis_id \in DOMAIN analysis_store :
    /\ analysis_store[analysis_id].status = "completed"
    /\ analysis_store[analysis_id].analysis[1].situation
         = analysis_store[analysis_id].request.situation
    /\ resp.op = "GetResult" /\ resp.id = analysis_id /\ resp.code = 200


\* the outcomes are the elements of the payload, all of them and in order
IsPayload(outcomes, payload) ==
  /\ payload.kind = "items"
  /\ Len(outcomes) = Len(payload.items)
  /\ \A i \in 1..Len(outcomes) :
       payload.items[i].keys = "exact" /\ outcomes[i] = payload.items[i].o

\* C27: the generated outcomes of a call are the canonical four or, when
\* the provider was asked, all elements of its payload in payload order;
\* never anything else, and the canonical four whenever an element of the
\* payload cannot be converted.
C27_NoMixture ==
  Generated =>
    /\ \/ engine.outcomes = CanonicalFour
       \/ (engine.calls = 1 /\ IsPayload(engine.outcomes, engine.payload[1]))
    /\ (/\ engine.calls = 1
        /\ engine.payload[1].kind = "items"
        /\ \E i \in 1..Len(engine.payload[1].items) :
             engine.payload[1].items[i].keys # "exact")
       => engine.outcomes = CanonicalFour

\* the payload's first element converts and its second does not: the
\* outcomes are the canonical four, without the first element
C27_Witness ==
  /\ Generated
  /\ engine.calls = 1
  /\ engine.payload[1].kind = "items"
  /\ Len(engine.payload[1].items) = 2
  /\ engine.payload[1].items[1].keys = "exact"
  /\ engine.payload[1].items[2].keys = "missing"
  /\ engine.outcomes = CanonicalFour


\* the step is one of the background execution of job analysis_id: its
\* task leaves the pending tasks and starts, or its started task ends
ExecutionStep(analysis_id) ==
  \/ \E task \in BagToSet(background) :
       /\ task.analysis_id = analysis_id
       /\ background' = background (-) SetToBag({task})
  \/ /\ ~IsNone(running)
     /\ running[1].analysis_id = analysis_id
     /\ IsNone(running')

\* C28: a step of the background execution of job a leaves every other
\* job's record, and its presence in the store, as they were; and an
\* analysis stored in a record is the analysis of that record's request.
C28_WritesOwnRecord ==
  [][/\ \A a \in Ids, b \in Ids :
          (a # b /\ ExecutionStep(a)) =>
            /\ b \in DOMAIN analysis_store <=> b \in DOMAIN analysis_store'
            /\ b \in DOMAIN analysis_store =>
                 analysis_store'[b] = analysis_store[b]
     /\ \A a \in DOMAIN analysis_store' :
          ~IsNone(analysis_store'[a].analysis) =>
            /\ analysis_store'[a].analysis[1].situation
                 = analysis_store'[a].request.situation
            /\ analysis_store'[a].analysis[1].context_factors
                 = ExtractContextFactors(analysis_store'[a].request.situation,
                                         analysis_store'[a].request.context)]_vars

\* job a was executed to completion on its own request while the record of
\* job b, created with another request, stayed queued
C28_Witness ==
  \E a \in DOMAIN analysis_store, b \in DOMAIN analysis_store :
    /\ a # b
    /\ analysis_store[a].request # analysis_store[b].request
    /\ analysis_store[a].status = "completed"
    /\ analysis_store[a].analysis[1].situation = analysis_store[a].request.situation
    /\ analysis_store[b].status = "queued"
    /\ trail[b] = <<"queued">>


RiskVariables ==
  {"Resource management", "Execution capability", "External environment"}

\* C29: whenever the key variables were identified from rule-based
\* outcomes (no client, or the fallback), they contain "Resource
\* management", "Execution capability" and "External environment" and
\* neither default variable; the default variables are returned only for
\* outcomes taken from the provider.
C29_RuleBasedNeverDefaults ==
  Identified =>
    /\ engine.strategy \in {"rule", "fallback"} =>
         /\ RiskVariables \subseteq SetOf(engine.key_variables)
         /\ SetOf(engine.key_variables) \cap SetOf(DefaultVariables) = {}
    /\ engine.key_variables = DefaultVariables => engine.strategy = "ai"

\* the fallback was used for a situation without any keyword: the key
\* variables are the three of the risk scan
C29_Witness ==
  /\ Identified
  /\ engine.strategy = "fallback"
  /\ engine.situation = "Go"
  /\ engine.key_variables =
       <<"Resource management", "Execution capability", "External environment">>

=============================================================================
